---- MODULE Spec2Model ----
(***************************************************************************)
(* Model of the Product Hunt scraping core (ph_ai_tools/producthunt.py),   *)
(* its command line entry point (ph_ai_tools/__main__.py) and the tabular  *)
(* file loader and the related-case search of the dashboard                *)
(* (streamlit_app.py).                                                     *)
(*                                                                         *)
(* Conventions                                                             *)
(*  - A Python/JSON value is a tagged record: JNull, JBool, JInt, JFloat,  *)
(*    JStr, JList, JDict.  A dict keeps its items as a sequence of         *)
(*    <<key, value>> pairs in insertion order, as Python dicts do.         *)
(*  - A text is a sequence of atoms; an atom is a character or a word     *)
(*    that no operation of the program splits.  Whitespace is the atom    *)
(*    " ".                                                                 *)
(*  - A markup text is a sequence of chunks: other markup, the opening    *)
(*    marker, the closing marker, or a blob of payload text.              *)
(***************************************************************************)
EXTENDS Integers, Sequences, FiniteSets, TLC

VARIABLES
    pc,             \* position of the call in scrape_top_ai_tools / main
    caller,         \* "direct" (library call) or "cli" (main)
    limit,          \* argument limit
    html,           \* argument/local html: None or a markup text
    payload,        \* local payload of scrape_top_ai_tools
    indexed_tools,  \* local indexed_tools of scrape_top_ai_tools
    ordered,        \* local ordered of scrape_top_ai_tools
    outcome,        \* how scrape_top_ai_tools ended: return value or exception
    calls,          \* the collaborators and helpers the call has entered, in order
    cli,            \* how main ended
    serial,         \* the last AiTool serialised and the dict to_dict gave
    ld,             \* state of load_tabular_file (streamlit_app.py)
    rc              \* state of compute_related_cases (streamlit_app.py)

vars == <<pc, caller, limit, html, payload, indexed_tools, ordered, outcome,
          calls, cli, serial, ld, rc>>

scrapeVars == <<pc, caller, limit, html, payload, indexed_tools, ordered,
                outcome, calls, cli, serial>>

-----------------------------------------------------------------------------
(* Bounds of the model *)

MaxLimit == 2
MaxNodes == 2
MaxVotes == 2
MaxChunks == 3

-----------------------------------------------------------------------------
(* Python / JSON values *)

JNull == [t |-> "null"]
JBool(b) == [t |-> "bool", b |-> b]
JInt(n) == [t |-> "int", n |-> n]
JFloat(f) == [t |-> "float", f |-> f]       \* f in {"inf", "-inf", "nan"}
JStr(s) == [t |-> "str", s |-> s]
JList(items) == [t |-> "list", items |-> items]
JDict(items) == [t |-> "dict", items |-> items]

\* A markup text as a Python str
Markup(chunks) == [t |-> "markup", chunks |-> chunks]

Last(s) == s[Len(s)]
Front(s) == SubSeq(s, 1, Len(s) - 1)

\* Python truthiness (bool(v)).
Truthy(v) ==
    CASE v.t = "null" -> FALSE
      [] v.t = "bool" -> v.b
      [] v.t = "int" -> v.n # 0
      [] v.t = "float" -> TRUE          \* inf, -inf and nan are all truthy
      [] v.t = "str" -> v.s # <<>>
      [] v.t = "list" -> v.items # <<>>
      [] v.t = "dict" -> v.items # <<>>

\* a or b
PyOr(a, b) == IF Truthy(a) THEN a ELSE b

\* key in d
HasKey(d, key) == \E i \in 1..Len(d.items) : d.items[i][1] = key

\* d.get(key): None when the key is missing.
Get(d, key) ==
    IF HasKey(d, key)
    THEN d.items[CHOOSE i \in 1..Len(d.items) : d.items[i][1] = key][2]
    ELSE JNull

\* list(d.values())
Values(d) == [i \in 1..Len(d.items) |-> d.items[i][2]]

\* str(v) for the values str() is applied to.
PyStr(v) ==
    CASE v.t = "str" -> v.s
      [] v.t = "int" -> <<ToString(v.n)>>
      [] v.t = "bool" -> IF v.b THEN <<"True">> ELSE <<"False">>
      [] v.t = "null" -> <<"None">>
      [] v.t = "float" -> <<v.f>>
      [] v.t = "list" -> <<"[...]">>
      [] v.t = "dict" -> <<"{...}">>

RECURSIVE LStrip(_)
LStrip(s) == IF s # <<>> /\ Head(s) = " " THEN LStrip(Tail(s)) ELSE s

RECURSIVE RStrip(_)
RStrip(s) == IF s # <<>> /\ Last(s) = " " THEN RStrip(Front(s)) ELSE s

\* s.strip()
Strip(s) == RStrip(LStrip(s))

\* sub in s, for texts
Contains(s, sub) ==
    \E i \in 0..(Len(s) - Len(sub)) : SubSeq(s, i + 1, i + Len(sub)) = sub

\* hash(v) is defined: lists and dicts are unhashable.
Hashable(v) == v.t \notin {"list", "dict"}

\* a == b for hashable values: True == 1 and False == 0 in Python.
PyEq(a, b) ==
    LET num(v) == IF v.t = "bool" THEN (IF v.b THEN 1 ELSE 0) ELSE v.n
        isNum(v) == v.t \in {"bool", "int"}
    IN  IF isNum(a) /\ isNum(b) THEN num(a) = num(b) ELSE a = b

-----------------------------------------------------------------------------
(* Exceptions and results *)

Return(v) == [kind |-> "return", value |-> v]
Raise(exc, msg) == [kind |-> "raise", exc |-> exc, msg |-> msg]
Pending == [kind |-> "pending"]

\* The failure kinds of ProductHuntScrapeError, told apart by their message.
PayloadNotFound == Raise("ProductHuntScrapeError", "Could not locate __NEXT_DATA__ script tag within the HTML payload.")
MalformedPayload == Raise("ProductHuntScrapeError", "Encountered malformed HTML when searching for __NEXT_DATA__ payload.")
PayloadDecodeError == Raise("ProductHuntScrapeError", "Failed to decode Product Hunt JSON payload.")
NoListingsFound == Raise("ProductHuntScrapeError", "No AI tools were found in the Product Hunt payload.")
TransportError == Raise("ProductHuntScrapeError", "Failed to fetch")

-----------------------------------------------------------------------------
(* Markup texts *)

TextChunk == [k |-> "text"]
OpenMarker == [k |-> "open"]      \* <script id="__NEXT_DATA__" type="application/json">
CloseMarker == [k |-> "close"]    \* </script>
\* A blob of payload text.  enc tells how doc is written:
\*   "plain"    JSON text of doc, no HTML entity in it
\*   "escaped"  JSON text of doc with its quotes written as &quot;
\*   "breaks"   JSON text of doc, one of whose strings holds &quot;: valid JSON
\*              as written, not valid once the entity is a quote
\*   "broken"   what "breaks" un-escapes to
\*   "deep"     brackets nested beyond the interpreter's recursion limit
Blob(enc, doc) == [k |-> "blob", enc |-> enc, doc |-> doc]

\* html.find(marker, start): 0-based index of the first chunk of that kind
\* at or after start, -1 when there is none.
Find(text, kind, start) ==
    LET hits == {i \in start..(Len(text) - 1) : text[i + 1].k = kind}
    IN  IF hits = {} THEN -1
        ELSE CHOOSE i \in hits : \A j \in hits : i <= j

\* html[a:b]
Slice(text, a, b) == SubSeq(text, a + 1, b)

\* html.unescape
Unescape(text) ==
    [i \in 1..Len(text) |->
        IF text[i].k = "blob" /\ text[i].enc = "escaped"
        THEN Blob("plain", text[i].doc)
        ELSE IF text[i].k = "blob" /\ text[i].enc = "breaks"
        THEN Blob("broken", text[i].doc)
        ELSE text[i]]

\* json.loads: the decoded value or the exception raised.
JsonLoads(text) ==
    IF text = <<>> THEN Raise("JSONDecodeError", "Expecting value")
    ELSE IF text[1].k # "blob" THEN Raise("JSONDecodeError", "Expecting value")
    ELSE IF text[1].enc = "deep"
    THEN Raise("RecursionError", "maximum recursion depth exceeded")
    ELSE IF text[1].enc \in {"escaped", "broken"}
    THEN Raise("JSONDecodeError", "Expecting property name")
    ELSE IF Len(text) > 1 THEN Raise("JSONDecodeError", "Extra data")
    ELSE Return(text[1].doc)

\* ExtractNextData looking for the closing marker first
ExtractNextDataCloseFirst(text) ==
    IF Find(text, "close", 0) = -1 THEN MalformedPayload
    ELSE LET start_index == Find(text, "open", 0)
         IN  IF start_index = -1 THEN PayloadNotFound
             ELSE LET start == start_index + 1
                      end_index == Find(text, "close", start)
                  IN  IF end_index = -1 THEN MalformedPayload
                      ELSE LET loaded == JsonLoads(Unescape(Slice(text, start, end_index)))
                           IN  IF loaded.kind = "raise" /\ loaded.exc = "JSONDecodeError"
                               THEN PayloadDecodeError
                               ELSE loaded

\* ExtractNextData looking for the closing marker from the start of the text
ExtractNextDataCloseAnywhere(text) ==
    LET start_index == Find(text, "open", 0)
    IN  IF start_index = -1 THEN PayloadNotFound
        ELSE LET start == start_index + 1
                 end_index == Find(text, "close", 0)
             IN  IF end_index = -1 THEN MalformedPayload
                 ELSE LET loaded == JsonLoads(Unescape(Slice(text, start, end_index)))
                      IN  IF loaded.kind = "raise" /\ loaded.exc = "JSONDecodeError"
                          THEN PayloadDecodeError
                          ELSE loaded

\* _extract_next_data(html)
ExtractNextData(text) ==
    LET start_index == Find(text, "open", 0)
    IN  IF start_index = -1 THEN PayloadNotFound
        ELSE LET start == start_index + 1
                 end_index == Find(text, "close", start)
             IN  IF end_index = -1 THEN MalformedPayload
                 ELSE LET json_blob == Unescape(Slice(text, start, end_index))
                          loaded == JsonLoads(json_blob)
                      IN  IF loaded.kind = "raise" /\ loaded.exc = "JSONDecodeError"
                          THEN PayloadDecodeError
                          ELSE loaded

-----------------------------------------------------------------------------
(* Node walker *)

\* Walk with the work-list taken from its front (first in, first out)
RECURSIVE WalkFirstInFirstOut(_)
WalkFirstInFirstOut(stack) ==
    IF stack = <<>> THEN <<>>
    ELSE LET current == Head(stack)
             rest == Tail(stack)
         IN  IF current.t = "dict"
             THEN <<current>> \o WalkFirstInFirstOut(rest \o Values(current))
             ELSE IF current.t = "list"
             THEN WalkFirstInFirstOut(rest \o current.items)
             ELSE WalkFirstInFirstOut(rest)

\* Walk that does not descend into sequences
RECURSIVE WalkMappingsOnly(_)
WalkMappingsOnly(stack) ==
    IF stack = <<>> THEN <<>>
    ELSE LET current == Last(stack)
             rest == Front(stack)
         IN  IF current.t = "dict"
             THEN <<current>> \o WalkMappingsOnly(rest \o Values(current))
             ELSE WalkMappingsOnly(rest)

\* The body of the while loop of _iter_nodes, from a given work-list: the
\* dicts it yields, in the order it yields them.
RECURSIVE Walk(_)
Walk(stack) ==
    IF stack = <<>> THEN <<>>
    ELSE LET current == Last(stack)
             rest == Front(stack)
         IN  IF current.t = "dict"
             THEN <<current>> \o Walk(rest \o Values(current))
             ELSE IF current.t = "list"
             THEN Walk(rest \o current.items)
             ELSE Walk(rest)

\* _iter_nodes(payload)
IterNodes(p) == Walk(<<p>>)

-----------------------------------------------------------------------------
(* Maker names *)

candidate_keys ==
    <<"makers", "makersPreview", "makersConnection", "primaryMaker",
      "primaryMakers", "maker", "team", "teamMembers">>

connection_keys ==
    <<"nodes", "edges", "profiles", "items", "collection", "members">>

RECURSIVE NormalisePeople(_)
RECURSIVE NormaliseEach(_)
RECURSIVE NormaliseEdges(_)
RECURSIVE NormaliseKeys(_, _)

\* _normalise_people(value)
NormalisePeople(value) ==
    IF value.t = "null" THEN <<>>
    ELSE IF value.t = "list" THEN NormaliseEach(value.items)
    ELSE IF value.t = "dict"
    THEN LET display_name == PyOr(Get(value, "displayName"), Get(value, "name"))
             own == IF (HasKey(value, "displayName") \/ HasKey(value, "name"))
                       /\ Truthy(display_name)
                    THEN <<PyStr(display_name)>> ELSE <<>>
             node == IF HasKey(value, "node")
                        /\ Get(value, "node").t \in {"dict", "list"}
                     THEN NormalisePeople(Get(value, "node")) ELSE <<>>
             user == IF HasKey(value, "user")
                     THEN NormalisePeople(Get(value, "user")) ELSE <<>>
             users == IF HasKey(value, "users")
                      THEN NormalisePeople(Get(value, "users")) ELSE <<>>
         IN  own \o NormaliseKeys(value, connection_keys) \o node \o user \o users
    ELSE <<>>

\* for item in value: names.extend(_normalise_people(item))
NormaliseEach(items) ==
    IF items = <<>> THEN <<>>
    ELSE NormalisePeople(Head(items)) \o NormaliseEach(Tail(items))

\* for edge in container: the "edges" branch
NormaliseEdges(edges) ==
    IF edges = <<>> THEN <<>>
    ELSE LET edge == Head(edges)
             one == IF edge.t = "dict" /\ HasKey(edge, "node")
                    THEN NormalisePeople(Get(edge, "node"))
                    ELSE NormalisePeople(edge)
         IN  one \o NormaliseEdges(Tail(edges))

\* for key in ("nodes", "edges", ...): if key in value: ...
NormaliseKeys(value, keys) ==
    IF keys = <<>> THEN <<>>
    ELSE LET key == Head(keys)
             container == Get(value, key)
             one == IF ~HasKey(value, key) THEN <<>>
                    ELSE IF key = "edges" /\ container.t = "list"
                    THEN NormaliseEdges(container.items)
                    ELSE NormalisePeople(container)
         IN  one \o NormaliseKeys(value, Tail(keys))

\* _deduplicate(values): the loop, from the items already kept
RECURSIVE DeduplicateFrom(_, _)
DeduplicateFrom(values, result) ==
    IF values = <<>> THEN result
    ELSE LET item == Head(values)
         IN  IF item = <<>> THEN DeduplicateFrom(Tail(values), result)
             ELSE IF \E i \in 1..Len(result) : result[i] = item
             THEN DeduplicateFrom(Tail(values), result)
             ELSE DeduplicateFrom(Tail(values), Append(result, item))

\* Deduplicate that keeps every item
DeduplicateKeepsAll(values) == values

Deduplicate(values) == DeduplicateFrom(values, <<>>)

RECURSIVE MakerNamesOf(_, _)
MakerNamesOf(node, keys) ==
    IF keys = <<>> THEN <<>>
    ELSE (IF HasKey(node, Head(keys))
          THEN NormalisePeople(Get(node, Head(keys))) ELSE <<>>)
         \o MakerNamesOf(node, Tail(keys))

\* _extract_maker_names(node)
ExtractMakerNames(node) == Deduplicate(MakerNamesOf(node, candidate_keys))

-----------------------------------------------------------------------------
(* Votes *)

\* The integers a text of the model can spell.
Numerals == (0 - MaxVotes)..MaxVotes

\* int(raw): the integer, or the exception int() raises.
PyInt(raw) ==
    CASE raw.t = "int" -> Return(raw.n)
      [] raw.t = "bool" -> Return(IF raw.b THEN 1 ELSE 0)
      [] raw.t = "float" ->
            IF raw.f = "nan" THEN Raise("ValueError", "cannot convert float NaN to integer")
            ELSE Raise("OverflowError", "cannot convert float infinity to integer")
      [] raw.t = "str" ->
            LET s == Strip(raw.s)
            IN  IF Len(s) = 1 /\ \E n \in Numerals : s[1] = ToString(n)
                THEN Return(CHOOSE n \in Numerals : s[1] = ToString(n))
                ELSE Raise("ValueError", "invalid literal for int()")
      [] OTHER -> Raise("TypeError", "int() argument must be a string or a real number")

\* _extract_votes(node): Return(int), Return(None) or the exception that escapes
ExtractVotes(node) ==
    LET raw0 == PyOr(Get(node, "votesCount"), Get(node, "votes"))
        raw_votes == IF raw0.t = "dict" THEN Get(raw0, "count") ELSE raw0
    IN  IF raw_votes.t = "null" THEN Return(JNull)
        ELSE LET r == PyInt(raw_votes)
             IN  IF r.kind = "return" THEN Return(JInt(r.value))
                 ELSE IF r.exc \in {"TypeError", "ValueError"} THEN Return(JNull)
                 ELSE r

-----------------------------------------------------------------------------
(* Entity builder *)

PRODUCT_HUNT_BASE_URL == <<"https://www.producthunt.com">>

\* The dataclass AiTool
AiTool(name, tagline, makers, product_hunt_url, external_url, votes_count) ==
    [name |-> name, tagline |-> tagline, makers |-> makers,
     product_hunt_url |-> product_hunt_url, external_url |-> external_url,
     votes_count |-> votes_count]

\* _build_tool(node, slug, name): Return(tool) or the exception that escapes
BuildTool(node, slug, name) ==
    LET tagline0 == PyOr(PyOr(Get(node, "tagline"), Get(node, "description")), JStr(<<>>))
        tagline == Strip(PyStr(tagline0))
        makers == ExtractMakerNames(node)
        product_hunt_url ==
            PyOr(Get(node, "profileUrl"),
                 JStr(PRODUCT_HUNT_BASE_URL \o <<"/posts/">> \o PyStr(slug)))
        external0 ==
            PyOr(PyOr(PyOr(Get(node, "websiteUrl"), Get(node, "website")),
                      Get(node, "redirectUrl")), Get(node, "url"))
        external_url ==
            IF ~Truthy(external0) /\ Get(node, "urls").t = "dict"
            THEN Get(Get(node, "urls"), "website")
            ELSE external0
        votes == ExtractVotes(node)
    IN  IF votes.kind = "raise" THEN votes
        ELSE Return(AiTool(JStr(Strip(name)), JStr(tagline),
                           JList([i \in 1..Len(makers) |-> JStr(makers[i])]),
                           product_hunt_url, external_url, votes.value))

\* ToDict with line 51 as "if self.votes_count:"
ToDictTruthyVotes(self) ==
    LET data == [k \in {"name", "tagline", "makers", "product_hunt_url"} |-> self[k]]
        with_url == IF Truthy(self.external_url)
                    THEN [k \in DOMAIN data \cup {"external_url"} |->
                            IF k = "external_url" THEN self.external_url ELSE data[k]]
                    ELSE data
    IN  IF Truthy(self.votes_count)
        THEN [k \in DOMAIN with_url \cup {"votes_count"} |->
                IF k = "votes_count" THEN self.votes_count ELSE with_url[k]]
        ELSE with_url

\* AiTool.to_dict(): the dict as a function from its keys
ToDict(self) ==
    LET data == [k \in {"name", "tagline", "makers", "product_hunt_url"} |-> self[k]]
        with_url == IF Truthy(self.external_url)
                    THEN [k \in DOMAIN data \cup {"external_url"} |->
                            IF k = "external_url" THEN self.external_url ELSE data[k]]
                    ELSE data
    IN  IF self.votes_count.t # "null"
        THEN [k \in DOMAIN with_url \cup {"votes_count"} |->
                IF k = "votes_count" THEN self.votes_count ELSE with_url[k]]
        ELSE with_url

-----------------------------------------------------------------------------
(* Collecting and ranking *)

\* typename is a str naming a post or a product (lines 206-211)
RecognisedType(typename) ==
    typename.t = "str"
    /\ (Contains(typename.s, <<"Post">>) \/ Contains(typename.s, <<"Product">>))

\* Candidate without the test of the type tag
CandidateAnyType(node) ==
    /\ Truthy(Get(node, "slug"))
    /\ Truthy(PyOr(Get(node, "name"), Get(node, "title")))

\* The node passes the checks of lines 206-215.
Candidate(node) ==
    /\ RecognisedType(Get(node, "__typename"))
    /\ Truthy(Get(node, "slug"))
    /\ Truthy(PyOr(Get(node, "name"), Get(node, "title")))

\* SeenSlug with the test of line 216 left out
SeenSlugNever(slug, seen_slugs) == FALSE

\* slug in seen_slugs, for a hashable slug
SeenSlug(slug, seen_slugs) ==
    \E i \in 1..Len(seen_slugs) : PyEq(seen_slugs[i], slug)

\* The for loop of _extract_tools over nodes[i..]: Return(candidates) or the
\* exception that escapes.  An entry of candidates is the tuple
\* (order, tool); slug and src (the position of its node in the walk) are
\* kept beside it for the statements about where a record came from.
RECURSIVE ExtractLoop(_, _, _, _, _)
ExtractLoop(nodes, i, candidates, seen_slugs, order_counter) ==
    IF i > Len(nodes) THEN Return(candidates)
    ELSE LET node == nodes[i]
             slug == Get(node, "slug")
             name == PyOr(Get(node, "name"), Get(node, "title"))
         IN  IF ~Candidate(node)
             THEN ExtractLoop(nodes, i + 1, candidates, seen_slugs, order_counter)
             ELSE IF ~Hashable(slug)
             THEN Raise("TypeError", "unhashable type")
             ELSE IF SeenSlug(slug, seen_slugs)
             THEN ExtractLoop(nodes, i + 1, candidates, seen_slugs, order_counter)
             ELSE LET built == BuildTool(node, slug, PyStr(name))
                  IN  IF built.kind = "raise" THEN built
                      ELSE ExtractLoop(nodes, i + 1,
                               Append(candidates,
                                      [order |-> order_counter, tool |-> built.value,
                                       slug |-> slug, src |-> i]),
                               Append(seen_slugs, slug), order_counter + 1)

\* _extract_tools(payload)
ExtractTools(p) == ExtractLoop(IterNodes(p), 1, <<>>, <<>>, 0)

\* item[1].votes_count or 0
EffectiveVotes(tool) ==
    IF tool.votes_count.t = "int" THEN tool.votes_count.n ELSE 0

\* KeyLess without the negation of the vote count (ascending votes)
KeyLessAscending(a, b) ==
    \/ EffectiveVotes(a.tool) < EffectiveVotes(b.tool)
    \/ /\ EffectiveVotes(a.tool) = EffectiveVotes(b.tool)
       /\ a.order < b.order

\* The sort key of line 164-167 orders a before b.
KeyLess(a, b) ==
    \/ 0 - EffectiveVotes(a.tool) < 0 - EffectiveVotes(b.tool)
    \/ /\ EffectiveVotes(a.tool) = EffectiveVotes(b.tool)
       /\ a.order < b.order

\* Insert item into an ordered list, after the entries it is not less than
\* (sorted() is stable).
RECURSIVE Insert(_, _)
Insert(item, list) ==
    IF list = <<>> THEN <<item>>
    ELSE IF KeyLess(item, Head(list)) THEN <<item>> \o list
    ELSE <<Head(list)>> \o Insert(item, Tail(list))

\* sorted(indexed_tools, key=...)
RECURSIVE Sorted(_)
Sorted(list) ==
    IF list = <<>> THEN <<>> ELSE Insert(Last(list), Sorted(Front(list)))

\* ordered[:limit], for limit > 0
Take(list, n) == SubSeq(list, 1, IF n < Len(list) THEN n ELSE Len(list))

\* [tool for _, tool in entries]
ToolsOf(entries) == [i \in 1..Len(entries) |-> entries[i].tool]

-----------------------------------------------------------------------------
(* Inputs *)

DEFAULT_LIMIT == 5

T(w) == JStr(<<w>>)

\* All sequences over S of length at most n
RECURSIVE SeqsUpTo(_, _)
SeqsUpTo(S, n) ==
    IF n = 0 THEN {<<>>}
    ELSE LET shorter == SeqsUpTo(S, n - 1)
         IN  shorter \cup {Append(q, x) : q \in shorter, x \in S}

Listing(typename, slug, name, extra) ==
    JDict(<<<<"__typename", typename>>, <<"slug", slug>>, <<"name", name>>>> \o extra)

Post(slug, extra) == Listing(T("Post"), T(slug), T("X"), extra)

VoteFields ==
    {<<>>, <<<<"votes", JInt(0)>>>>}
    \cup {<<<<"votesCount", JInt(n)>>>> : n \in 0..MaxVotes}

\* Well-formed listings: two slugs, every vote count and none.
BaseListings == {Post(s, v) : s \in {"a", "b"}, v \in VoteFields}

Person(n) == JDict(<<<<"name", T(n)>>>>)

\* Nodes of other shapes: one per way a node can differ from a well-formed listing.
OddNodes ==
    { Listing(T("User"), T("c"), T("X"), <<>>),
      JDict(<<<<"slug", T("c")>>, <<"name", T("X")>>>>),
      Listing(JInt(1), T("c"), T("X"), <<>>),
      Listing(JStr(<<"Ai", "Product", "Node">>), T("c"), T("X"), <<>>),
      Listing(T("Post"), JStr(<<>>), T("X"), <<>>),
      Listing(T("Post"), JList(<<T("a")>>), T("X"), <<>>),
      Listing(T("Post"), JInt(1), T("X"), <<>>),
      Listing(T("Post"), JBool(TRUE), T("X"), <<>>),
      JDict(<<<<"__typename", T("Post")>>, <<"slug", T("c")>>, <<"title", T("Y")>>>>),
      Listing(T("Post"), T("c"), JStr(<<" ">>), <<>>),
      Listing(T("Post"), T("c"), JStr(<<>>), <<>>),
      JDict(<<<<"__typename", T("Post")>>>>),
      Listing(T("Post"), T("c"), JInt(7), <<>>),
      Post("c", <<<<"votes", JDict(<<<<"count", JInt(1)>>>>)>>>>),
      Post("c", <<<<"votes", JDict(<<>>)>>>>),
      Post("c", <<<<"votes", JStr(<<" ", "1">>)>>>>),
      Post("c", <<<<"votes", T("many")>>>>),
      Post("c", <<<<"votesCount", JFloat("inf")>>>>),
      Post("c", <<<<"votes", JFloat("nan")>>>>),
      Post("c", <<<<"votesCount", JInt(0)>>, <<"votes", JInt(2)>>>>),
      Post("c", <<<<"votes", JInt(0)>>>>),
      Post("c", <<<<"votesCount", JInt(-1)>>>>),
      Post("c", <<<<"votesCount", JList(<<JInt(1)>>)>>>>),
      Post("c", <<<<"tagline", JStr(<<" ", "hi", " ">>)>>,
                  <<"makers", JList(<<Person("Ann"), Person("Bob"), Person("Ann")>>)>>,
                  <<"profileUrl", T("https://ph/c")>>,
                  <<"websiteUrl", T("https://c.example")>>,
                  <<"votesCount", JInt(1)>>>>),
      Post("c", <<<<"tagline", JStr(<<>>)>>, <<"description", T("long")>>,
                  <<"url", JStr(<<>>)>>,
                  <<"urls", JDict(<<<<"website", T("https://c.example")>>>>)>>>>),
      Post("c", <<<<"tagline", JStr(<<" ">>)>>, <<"description", T("long")>>>>),
      Post("c", <<<<"url", JStr(<<>>)>>, <<"urls", JDict(<<<<"website", JStr(<<>>)>>>>)>>>>),
      Post("c", <<<<"makersConnection",
                    JDict(<<<<"edges", JList(<<JDict(<<<<"node",
                        JDict(<<<<"displayName", T("Cy")>>, <<"name", T("cy")>>>>)>>>>),
                        JDict(<<<<"node", JDict(<<<<"user", Person("Di")>>>>)>>>>)>>)>>>>)>>,
                  <<"maker", JDict(<<<<"name", JStr(<<>>)>>>>)>>,
                  <<"team", JDict(<<<<"nodes", JList(<<Person("Cy"), JNull>>)>>>>)>>>>) }

\* The decoded document holding the given nodes
Document(nodes) ==
    JDict(<<<<"props", JDict(<<<<"posts", JList(nodes)>>>>)>>>>)

Companion == Post("b", <<<<"votesCount", JInt(1)>>>>)

Payloads ==
    {Document(ns) : ns \in SeqsUpTo(BaseListings, MaxNodes)}
    \cup {Document(<<d>>) : d \in OddNodes}
    \cup {Document(<<d, Companion>>) : d \in OddNodes}
    \cup {Document(<<Companion, d>>) : d \in OddNodes}
    \cup { JFloat("nan"), JInt(1), JList(<<>>), Companion,
           Post("a", <<<<"related", JList(<<Companion, Post("a", <<>>)>>)>>>>) }

SmallDoc == Document(<<Companion>>)

StructuralChunks ==
    { TextChunk, OpenMarker, CloseMarker, Blob("plain", SmallDoc),
      Blob("escaped", SmallDoc), Blob("breaks", SmallDoc), Blob("deep", JNull) }

\* The markup texts a call is given: every arrangement of a few chunks, and
\* every payload inside a well-formed page.
Htmls ==
    {Markup(cs) : cs \in SeqsUpTo(StructuralChunks, MaxChunks)}
    \cup {Markup(<<TextChunk, OpenMarker, Blob(e, p), CloseMarker, TextChunk>>) :
            e \in {"plain", "escaped"}, p \in Payloads}

\* What the page fetcher can download
FetchedPages ==
    { Markup(<<TextChunk>>),
      Markup(<<TextChunk, OpenMarker, Blob("escaped", SmallDoc), CloseMarker>>) }

Limits == ((0 - 1)..MaxLimit) \cup {DEFAULT_LIMIT}

-----------------------------------------------------------------------------
(* scrape_top_ai_tools, step by step *)

\* load_tabular_file before it is called
LdInit ==
    [pc |-> "idle", pandas |-> TRUE, name |-> <<>>, filename |-> <<>>, pos |-> 0, i |-> 1,
     last_exc |-> JNull, warnings |-> <<>>, log |-> <<>>, outcome |-> Pending]

\* compute_related_cases before it is called
RcInit ==
    [pc |-> "idle", df |-> <<>>, summary_col |-> JNull, selected_ward |-> JNull,
     selected_summary |-> JNull, crime_col |-> JNull, selected_crime |-> JNull,
     top_n |-> 0, candidates |-> <<>>, scored |-> <<>>, result |-> Pending]

Init ==
    /\ pc = "idle"
    /\ caller = "none"
    /\ limit = 0
    /\ html = JNull
    /\ payload = JNull
    /\ indexed_tools = <<>>
    /\ ordered = <<>>
    /\ outcome = Pending
    /\ calls = <<>>
    /\ cli = [status |-> "none"]
    /\ serial = [done |-> FALSE]
    /\ ld = LdInit
    /\ rc = RcInit

\* scrape_top_ai_tools(limit=l, html=h) is entered, from a test or from main
Call ==
    /\ pc = "idle"
    /\ \E l \in Limits, h \in Htmls \cup {JNull}, c \in {"direct", "cli"} :
          /\ limit' = l
          /\ html' = h
          /\ caller' = c
    /\ pc' = "L150"
    /\ UNCHANGED <<payload, indexed_tools, ordered, outcome, calls, cli, serial, ld, rc>>

\* CheckLimit with the test of line 150 as limit < 0
CheckLimitStrict ==
    /\ pc = "L150"
    /\ IF limit < 0
       THEN pc' = "returned" /\ outcome' = Return(<<>>)
       ELSE pc' = "L153" /\ UNCHANGED outcome
    /\ UNCHANGED <<caller, limit, html, payload, indexed_tools, ordered, calls, cli, serial, ld, rc>>

\* lines 150-151
CheckLimit ==
    /\ pc = "L150"
    /\ IF limit <= 0
       THEN pc' = "returned" /\ outcome' = Return(<<>>)
       ELSE pc' = "L153" /\ UNCHANGED outcome
    /\ UNCHANGED <<caller, limit, html, payload, indexed_tools, ordered, calls, cli, serial, ld, rc>>

\* lines 153-154 with html given
KeepHtml ==
    /\ pc = "L153"
    /\ html # JNull
    /\ pc' = "L156"
    /\ UNCHANGED <<caller, limit, html, payload, indexed_tools, ordered, outcome, calls, cli, serial, ld, rc>>

\* lines 153-154 with html None: fetch_topic_page returns a page
FetchTopicPage ==
    /\ pc = "L153"
    /\ html = JNull
    /\ calls' = Append(calls, "fetch_topic_page")
    /\ \E page \in FetchedPages : html' = page
    /\ pc' = "L156"
    /\ UNCHANGED <<caller, limit, payload, indexed_tools, ordered, outcome, cli, serial, ld, rc>>

\* lines 153-154 with html None: fetch_topic_page raises (lines 90-114)
FetchFails ==
    /\ pc = "L153"
    /\ html = JNull
    /\ calls' = Append(calls, "fetch_topic_page")
    /\ outcome' = TransportError
    /\ pc' = "raised"
    /\ UNCHANGED <<caller, limit, html, payload, indexed_tools, ordered, cli, serial, ld, rc>>

\* line 156
LocatePayload ==
    /\ pc = "L156"
    /\ calls' = Append(calls, "_extract_next_data")
    /\ LET r == ExtractNextData(html.chunks)
       IN  IF r.kind = "raise"
           THEN outcome' = r /\ pc' = "raised" /\ UNCHANGED payload
           ELSE payload' = r.value /\ pc' = "L157" /\ UNCHANGED outcome
    /\ UNCHANGED <<caller, limit, html, indexed_tools, ordered, cli, serial, ld, rc>>

\* line 157
CollectTools ==
    /\ pc = "L157"
    /\ calls' = Append(calls, "_extract_tools")
    /\ LET r == ExtractTools(payload)
       IN  IF r.kind = "raise"
           THEN outcome' = r /\ pc' = "raised" /\ UNCHANGED indexed_tools
           ELSE indexed_tools' = r.value /\ pc' = "L158" /\ UNCHANGED outcome
    /\ UNCHANGED <<caller, limit, html, payload, ordered, cli, serial, ld, rc>>

\* Rank without the check of lines 158-161
RankReturnsEmpty ==
    /\ pc = "L158"
    /\ ordered' = Sorted(indexed_tools)
    /\ outcome' = Return(ToolsOf(Take(ordered', limit)))
    /\ pc' = "returned"
    /\ UNCHANGED <<caller, limit, html, payload, indexed_tools, calls, cli, serial, ld, rc>>

\* lines 158-169
Rank ==
    /\ pc = "L158"
    /\ IF indexed_tools = <<>>
       THEN outcome' = NoListingsFound /\ pc' = "raised" /\ UNCHANGED ordered
       ELSE /\ ordered' = Sorted(indexed_tools)
            /\ outcome' = Return(ToolsOf(Take(ordered', limit)))
            /\ pc' = "returned"
    /\ UNCHANGED <<caller, limit, html, payload, indexed_tools, calls, cli, serial, ld, rc>>

-----------------------------------------------------------------------------
(* AiTool.to_dict as the unit test calls it, and on returned records *)

MaxMakers == 1

SampleMakers == SeqsUpTo({T("Maker"), T("Other")}, MaxMakers)

SampleTools ==
    { AiTool(T("Sample"), tagline, JList(makers),
             T("https://www.producthunt.com/posts/sample"), external_url, votes_count) :
        tagline \in {JStr(<<>>), T("Tagline")},
        makers \in SampleMakers,
        external_url \in {JNull, JStr(<<>>), T("https://example.com")},
        votes_count \in {JNull} \cup {JInt(n) : n \in 0..MaxVotes} }

\* tool.to_dict() on a record built by hand
SerialiseSample ==
    /\ pc = "idle"
    /\ \E tool \in SampleTools :
          serial' = [done |-> TRUE, tool |-> tool, data |-> ToDict(tool)]
    /\ pc' = "serialised"
    /\ UNCHANGED <<caller, limit, html, payload, indexed_tools, ordered, outcome, calls, cli, ld, rc>>

\* tool.to_dict() on a record scrape_top_ai_tools returned
SerialiseReturned ==
    /\ pc = "returned"
    /\ caller = "direct"
    /\ \E i \in 1..Len(outcome.value) :
          serial' = [done |-> TRUE, tool |-> outcome.value[i],
                     data |-> ToDict(outcome.value[i])]
    /\ pc' = "serialised"
    /\ UNCHANGED <<caller, limit, html, payload, indexed_tools, ordered, outcome, calls, cli, ld, rc>>

-----------------------------------------------------------------------------
(* main *)

\* lines 58-62: the HTML file cannot be read
MainReadFails ==
    /\ pc = "idle"
    /\ cli' = [status |-> "exit", code |-> 1, diagnostic |-> "read", printed |-> <<>>]
    /\ pc' = "exited"
    /\ UNCHANGED <<caller, limit, html, payload, indexed_tools, ordered, outcome, calls, serial, ld, rc>>

\* lines 64-79, once scrape_top_ai_tools has ended
MainFinish ==
    /\ caller = "cli"
    /\ pc \in {"returned", "raised"}
    /\ IF outcome.kind = "raise"
       THEN IF outcome.exc = "ProductHuntScrapeError"
            THEN cli' = [status |-> "exit", code |-> 1, diagnostic |-> outcome.msg,
                         printed |-> <<>>]
            ELSE cli' = [status |-> "uncaught", exc |-> outcome.exc]
       ELSE \E format \in {"text", "json"} :
               cli' = [status |-> "exit", code |-> 0, diagnostic |-> "",
                       printed |-> IF format = "json"
                                   THEN [i \in 1..Len(outcome.value) |->
                                            ToDict(outcome.value[i])]
                                   ELSE [i \in 1..Len(outcome.value) |->
                                            outcome.value[i].name]]
    /\ pc' = "exited"
    /\ UNCHANGED <<caller, limit, html, payload, indexed_tools, ordered, outcome, calls, serial, ld, rc>>

ScrapeNext ==
    \/ Call
    \/ CheckLimit
    \/ KeepHtml
    \/ FetchTopicPage
    \/ FetchFails
    \/ LocatePayload
    \/ CollectTools
    \/ Rank
    \/ SerialiseSample
    \/ SerialiseReturned
    \/ MainReadFails
    \/ MainFinish

Next == ScrapeNext

Spec == Init /\ [][Next]_vars

-----------------------------------------------------------------------------
(* load_tabular_file (streamlit_app.py) *)

MaxFrames == 2
MaxPos == 1

\* attempts (lines 44-48); kwargs as a set of <<option, value>> pairs
attempts ==
    << [kwargs |-> {}, record_warning |-> FALSE],
       [kwargs |-> {<<"engine", "python">>}, record_warning |-> TRUE],
       [kwargs |-> {<<"engine", "python">>, <<"on_bad_lines", "skip">>},
        record_warning |-> TRUE] >>

RowsExcludedWarning == "rows excluded"        \* the message of line 64
FlexibleModeWarning == "flexible parsing mode" \* the message of line 68

\* str.lower() on the atoms of a file name
Lower(name) ==
    [i \in 1..Len(name) |->
        CASE name[i] = ".CSV" -> ".csv"
          [] name[i] = ".XLSX" -> ".xlsx"
          [] name[i] = "RECORDS" -> "records"
          [] OTHER -> name[i]]

\* filename.endswith(suffix)
EndsWith(name, suffix) == name # <<>> /\ Last(name) = suffix

FileNames ==
    { <<"records", ".csv">>, <<"RECORDS", ".CSV">>, <<"records", ".xlsx">>,
      <<"records", ".XLSX">>, <<"records", ".xls">>, <<"records", ".txt">>,
      <<"records", ".csv", ".bak">> }

\* uploaded_file.seek(offset): the position of the file afterwards
Seek(pos, offset) == offset

\* What a read of the file can give: a frame, read with the given options, or
\* an exception.
Frame(kwargs, content) == [kwargs |-> kwargs, content |-> content]

\* lines 39-43, 76, 79-80
LoadCall ==
    /\ ld.pc = "idle"
    /\ \E name \in FileNames, pandas \in BOOLEAN, pos \in 0..MaxPos :
          LET filename == Lower(name)
              entered == [ld EXCEPT !.pandas = pandas, !.name = name,
                                    !.filename = filename, !.pos = pos]
          IN  ld' =
                IF ~pandas
                THEN [entered EXCEPT !.pc = "raised",
                                     !.outcome = Raise("ImportError", "pandas")]
                ELSE IF EndsWith(filename, ".csv")
                THEN [entered EXCEPT !.pc = "csv"]
                ELSE IF EndsWith(filename, ".xlsx") \/ EndsWith(filename, ".xls")
                THEN [entered EXCEPT !.pc = "excel"]
                ELSE [entered EXCEPT !.pc = "raised",
                                     !.outcome = Raise("ValueError", "Unsupported file type")]
    /\ UNCHANGED <<scrapeVars, rc>>

\* WarningsAfter with the two branches of lines 62-69 exchanged
WarningsAfterExchanged(attempt, warnings) ==
    IF attempt.record_warning /\ <<"on_bad_lines", "skip">> \in attempt.kwargs
    THEN Append(warnings, FlexibleModeWarning)
    ELSE IF attempt.record_warning
    THEN Append(warnings, RowsExcludedWarning)
    ELSE warnings

\* The warning lines 62-69 append after a successful read
WarningsAfter(attempt, warnings) ==
    IF attempt.record_warning /\ <<"on_bad_lines", "skip">> \in attempt.kwargs
    THEN Append(warnings, RowsExcludedWarning)
    ELSE IF attempt.record_warning
    THEN Append(warnings, FlexibleModeWarning)
    ELSE warnings

\* One iteration of the loop of lines 51-71, ending in a frame
AttemptReads ==
    /\ ld.pc = "csv"
    /\ ld.i <= Len(attempts)
    /\ \E content \in 1..MaxFrames, after \in 0..MaxPos :
          LET attempt == attempts[ld.i]
              sought == Seek(ld.pos, 0)
          IN  ld' = [ld EXCEPT
                        !.log = Append(@, [kwargs |-> attempt.kwargs, pos |-> sought,
                                           result |-> "frame"]),
                        !.pos = after,
                        !.warnings = WarningsAfter(attempt, @),
                        !.outcome = Return(<<Frame(attempt.kwargs, content),
                                             WarningsAfter(attempt, ld.warnings)>>),
                        !.pc = "returned"]
    /\ UNCHANGED <<scrapeVars, rc>>

\* AttemptFails with last_exc set by the first failure only
AttemptFailsKeepsFirst ==
    /\ ld.pc = "csv"
    /\ ld.i <= Len(attempts)
    /\ \E exc \in {"ParserError", "UnicodeDecodeError"}, after \in 0..MaxPos :
          LET attempt == attempts[ld.i]
              sought == Seek(ld.pos, 0)
          IN  ld' = [ld EXCEPT
                        !.log = Append(@, [kwargs |-> attempt.kwargs, pos |-> sought,
                                           result |-> exc]),
                        !.pos = after,
                        !.last_exc = IF @ = JNull
                                     THEN [exc |-> exc, attempt |-> ld.i] ELSE @,
                        !.i = @ + 1]
    /\ UNCHANGED <<scrapeVars, rc>>

\* One iteration of the loop of lines 51-71, ending in an exception
AttemptFails ==
    /\ ld.pc = "csv"
    /\ ld.i <= Len(attempts)
    /\ \E exc \in {"ParserError", "UnicodeDecodeError"}, after \in 0..MaxPos :
          LET attempt == attempts[ld.i]
              sought == Seek(ld.pos, 0)
          IN  ld' = [ld EXCEPT
                        !.log = Append(@, [kwargs |-> attempt.kwargs, pos |-> sought,
                                           result |-> exc]),
                        !.pos = after,
                        !.last_exc = [exc |-> exc, attempt |-> ld.i],
                        !.i = @ + 1]
    /\ UNCHANGED <<scrapeVars, rc>>

\* lines 73-74 and 82, after the loop ran out of attempts
AfterLoop ==
    /\ ld.pc = "csv"
    /\ ld.i > Len(attempts)
    /\ ld' = [ld EXCEPT
                !.pc = "raised",
                !.outcome = IF ld.last_exc # JNull
                            THEN Raise(ld.last_exc.exc, ld.last_exc.attempt)
                            ELSE Raise("ValueError", "CSV")]
    /\ UNCHANGED <<scrapeVars, rc>>

\* lines 76-78: read_excel returns
ExcelReads ==
    /\ ld.pc = "excel"
    /\ \E content \in 1..MaxFrames, after \in 0..MaxPos :
          ld' = [ld EXCEPT !.pos = after,
                           !.outcome = Return(<<Frame({}, content), ld.warnings>>),
                           !.pc = "returned"]
    /\ UNCHANGED <<scrapeVars, rc>>

\* lines 76-78: read_excel raises
ExcelFails ==
    /\ ld.pc = "excel"
    /\ \E after \in 0..MaxPos :
          ld' = [ld EXCEPT !.pos = after,
                           !.outcome = Raise("ValueError", "excel"),
                           !.pc = "raised"]
    /\ UNCHANGED <<scrapeVars, rc>>

LoadNext ==
    \/ LoadCall
    \/ AttemptReads
    \/ AttemptFails
    \/ AfterLoop
    \/ ExcelReads
    \/ ExcelFails

LoadSpec == Init /\ [][LoadNext]_vars

-----------------------------------------------------------------------------
(* compute_related_cases (streamlit_app.py) *)

MaxRows == 3
MaxTopN == 1
DEFAULT_TOP_N == 5

\* A cell holding no value (NaN or None), what dropna and == treat as missing
NaN == JFloat("nan")
Missing(v) == v.t = "null" \/ (v.t = "float" /\ v.f = "nan")

\* A str of single characters
Chars(s) == JStr(s)

ward_col == T("ward")
crime_column == T("crime")
summary_column == T("summary")

\* df.columns of the frames of the model
Columns == <<ward_col, crime_column, summary_column>>

InColumns(col) == \E k \in 1..Len(Columns) : Columns[k] = col

Row(ward, crime, summary) == [ward |-> ward, crime |-> crime, summary |-> summary]

\* row[col]
Cell(row, col) ==
    CASE col = ward_col -> row.ward
      [] col = crime_column -> row.crime
      [] col = summary_column -> row.summary

\* A DataFrame: its columns and its rows in index order
DataFrame(columns, rows) == [columns |-> columns, rows |-> rows]

\* pd.DataFrame()
EmptyFrame == DataFrame(<<>>, <<>>)

\* Series == value, elementwise: a missing cell equals nothing
CellEq(cell, value) == ~Missing(cell) /\ cell = value

\* difflib: length of the run of equal elements of a from i and b from j
RECURSIVE RunLength(_, _, _, _, _, _)
RunLength(a, b, i, j, ahi, bhi) ==
    IF i < ahi /\ j < bhi /\ a[i] = b[j]
    THEN 1 + RunLength(a, b, i + 1, j + 1, ahi, bhi)
    ELSE 0

\* SequenceMatcher.find_longest_match(alo, ahi, blo, bhi): the longest block,
\* of those the one starting earliest in a, of those the earliest in b
FindLongestMatch(a, b, alo, ahi, blo, bhi) ==
    LET starts == {<<i, j>> : i \in alo..(ahi - 1), j \in blo..(bhi - 1)}
        size(p) == RunLength(a, b, p[1], p[2], ahi, bhi)
        first(p, q) == \/ size(p) > size(q)
                       \/ /\ size(p) = size(q)
                          /\ \/ p[1] < q[1]
                             \/ p[1] = q[1] /\ p[2] <= q[2]
    IN  IF starts = {} THEN <<alo, blo, 0>>
        ELSE LET best == CHOOSE p \in starts : \A q \in starts : first(p, q)
             IN  <<best[1], best[2], size(best)>>

\* Sum of the sizes of SequenceMatcher.get_matching_blocks()
RECURSIVE MatchingSize(_, _, _, _, _, _)
MatchingSize(a, b, alo, ahi, blo, bhi) ==
    LET m == FindLongestMatch(a, b, alo, ahi, blo, bhi)
    IN  IF m[3] = 0 THEN 0
        ELSE m[3] + MatchingSize(a, b, alo, m[1], blo, m[2])
                  + MatchingSize(a, b, m[1] + m[3], ahi, m[2] + m[3], bhi)

\* SequenceMatcher(None, a, b).ratio() as the fraction 2 * matches / length
Similarity(a, b) ==
    [matches |-> MatchingSize(a.s, b.s, 1, Len(a.s) + 1, 1, Len(b.s) + 1),
     length |-> Len(a.s) + Len(b.s)]

\* ratio >= 0.3 (ratio is 1.0 when both texts are empty)
AtLeastThreshold(r) == r.length = 0 \/ 20 * r.matches >= 3 * r.length

\* ratio r1 >= ratio r2
RatioGeq(r1, r2) ==
    IF r1.length = 0 THEN TRUE
    ELSE IF r2.length = 0 THEN 2 * r1.matches >= r1.length
    ELSE r1.matches * r2.length >= r2.matches * r1.length

\* Lines 119-124: rows of the ward, of the crime when one is selected, with a summary
Candidates(df, selected_ward, crime_col, selected_crime, summary_col) ==
    LET inWard(row) == CellEq(Cell(row, ward_col), selected_ward)
        ofCrime(row) == CellEq(Cell(row, crime_col), selected_crime)
        hasSummary(row) == ~Missing(Cell(row, summary_col))
        ofWard == SelectSeq(df, inWard)
        filtered == IF Truthy(crime_col) /\ Truthy(selected_crime)
                    THEN SelectSeq(ofWard, ofCrime) ELSE ofWard
    IN  SelectSeq(filtered, hasSummary)

\* Scored without line 132
ScoredKeepsSelected(candidates, summary_col, selected_summary) ==
    LET similar(row) == AtLeastThreshold(Similarity(selected_summary, Cell(row, summary_col)))
    IN  SelectSeq(candidates, similar)

\* Lines 131-133: the candidates with another summary and a score of at least 0.3
Scored(candidates, summary_col, selected_summary) ==
    LET other(row) == Cell(row, summary_col) # selected_summary
        similar(row) == AtLeastThreshold(Similarity(selected_summary, Cell(row, summary_col)))
    IN  SelectSeq(SelectSeq(candidates, other), similar)

\* The orders sort_values("_score", ascending=False) can give: the sort is
\* not stable, so rows of equal score come in any order
Orders(n) == {f \in [1..n -> 1..n] : \A i, j \in 1..n : i # j => f[i] # f[j]}
SortedByScore(rows, summary_col, selected_summary) ==
    LET score(row) == Similarity(selected_summary, Cell(row, summary_col))
    IN  {[k \in 1..Len(rows) |-> rows[f[k]]] : f \in
            {g \in Orders(Len(rows)) :
                \A k \in 1..(Len(rows) - 1) :
                    RatioGeq(score(rows[g[k]]), score(rows[g[k + 1]]))}}

\* frame.head(n): the first n rows, all but the last -n rows when n < 0
FrameHead(rows, n) ==
    IF n >= 0 THEN SubSeq(rows, 1, IF n < Len(rows) THEN n ELSE Len(rows))
    ELSE SubSeq(rows, 1, Len(rows) + n)

selected == Chars(<<"a", "b">>)

\* Rows of the frames of the model: in and out of the ward and the crime of
\* the search, with the selected summary, a close one, a closer one, an
\* unrelated one and none
SampleRows ==
    {Row(T("w1"), T("c1"), Chars(<<"a", "c">>)),
     Row(T("w1"), T("c1"), Chars(<<"a", "b", "c">>)),
     Row(T("w1"), T("c1"), selected),
     Row(T("w1"), T("c2"), Chars(<<"a", "c">>)),
     Row(T("w2"), T("c1"), Chars(<<"a", "c">>)),
     Row(T("w1"), T("c1"), NaN),
     Row(T("w1"), T("c1"), Chars(<<"c", "d">>))}

Frames == SeqsUpTo(SampleRows, MaxRows)
TopNs == 0..MaxTopN \cup {DEFAULT_TOP_N}

\* compute_related_cases(df, ward_col, summary_col, selected_ward,
\* selected_summary, crime_col, selected_crime, top_n) is entered
RelatedCall ==
    /\ rc.pc = "idle"
    /\ \E df \in Frames, sc \in {JNull, summary_column, T("notes")},
          ss \in {JNull, Chars(<<>>), selected},
          cc \in {JNull, crime_column}, cr \in {JNull, T("c1")}, n \in TopNs :
          rc' = [rc EXCEPT !.pc = "L116", !.df = df, !.summary_col = sc,
                           !.selected_ward = T("w1"), !.selected_summary = ss,
                           !.crime_col = cc, !.selected_crime = cr, !.top_n = n]
    /\ UNCHANGED <<scrapeVars, ld>>

\* Lines 116-117
RelatedGuard ==
    /\ rc.pc = "L116"
    /\ IF \/ ~Truthy(rc.summary_col)
          \/ ~InColumns(rc.summary_col)
          \/ ~Truthy(rc.selected_summary)
       THEN rc' = [rc EXCEPT !.pc = "returned", !.result = Return(EmptyFrame)]
       ELSE rc' = [rc EXCEPT !.pc = "L119"]
    /\ UNCHANGED <<scrapeVars, ld>>

\* Lines 119-127
RelatedFilter ==
    /\ rc.pc = "L119"
    /\ LET candidates == Candidates(rc.df, rc.selected_ward, rc.crime_col,
                                    rc.selected_crime, rc.summary_col)
       IN  IF candidates = <<>>
           THEN rc' = [rc EXCEPT !.pc = "returned", !.candidates = candidates,
                                 !.result = Return(EmptyFrame)]
           ELSE rc' = [rc EXCEPT !.pc = "L129", !.candidates = candidates]
    /\ UNCHANGED <<scrapeVars, ld>>

\* Lines 129-136
RelatedScore ==
    /\ rc.pc = "L129"
    /\ LET scored == Scored(rc.candidates, rc.summary_col, rc.selected_summary)
       IN  IF scored = <<>>
           THEN rc' = [rc EXCEPT !.pc = "returned", !.scored = scored,
                                 !.result = Return(EmptyFrame)]
           ELSE rc' = [rc EXCEPT !.pc = "L138", !.scored = scored]
    /\ UNCHANGED <<scrapeVars, ld>>

\* Lines 138-139
RelatedRank ==
    /\ rc.pc = "L138"
    /\ \E sorted \in SortedByScore(rc.scored, rc.summary_col, rc.selected_summary) :
          rc' = [rc EXCEPT !.pc = "returned",
                           !.result = Return(DataFrame(Columns, FrameHead(sorted, rc.top_n)))]
    /\ UNCHANGED <<scrapeVars, ld>>

RelatedNext ==
    \/ RelatedCall
    \/ RelatedGuard
    \/ RelatedFilter
    \/ RelatedScore
    \/ RelatedRank

RelatedSpec == Init /\ [][RelatedNext]_vars

-----------------------------------------------------------------------------
(* Properties of scrape_top_ai_tools *)

\* A call of scrape_top_ai_tools was made and has ended.
Ended == caller # "none" /\ pc \in {"returned", "raised", "exited", "serialised"}

\* The score a record is ranked by: an absent score counts as 0.
Score(tool) == IF tool.votes_count = JNull THEN 0 ELSE tool.votes_count.n

Min(a, b) == IF a < b THEN a ELSE b

\* C1: for every limit <= 0 the call returns the empty list without raising,
\* and without entering the page fetcher, the payload locator or the node
\* walk, whatever the markup is (absent, without marker, not JSON, without
\* listings).
C1_NonPositiveLimitReturnsEmpty ==
    (caller # "none" /\ limit <= 0 /\ pc # "L150")
        => (outcome = Return(<<>>) /\ calls = <<>> /\ payload = JNull
            /\ indexed_tools = <<>>)

\* C1 witness: a call with a negative limit and no markup at all has returned.
C1_Witness ==
    caller # "none" /\ limit < 0 /\ html = JNull /\ pc = "returned"
    /\ outcome = Return(<<>>)

\* C2: when a list is returned for limit > 0, its length is
\* min(limit, number of accepted listings), a listing being one slug among
\* the nodes that pass the acceptance tests, and it is the first `limit`
\* records of the accepted listings put in descending order of score (absent
\* counted as 0), ties in ascending order of discovery index.
C2_ReturnedListRanked ==
    (outcome.kind = "return" /\ limit > 0)
        => /\ Len(outcome.value) = Min(limit, Len(indexed_tools))
           /\ Len(outcome.value) <= limit
           /\ LET nodes == IterNodes(payload)
              IN  Len(indexed_tools) =
                     Cardinality({Get(nodes[k], "slug") :
                                     k \in {n \in 1..Len(nodes) : Candidate(nodes[n])}})
           /\ Len(ordered) = Len(indexed_tools)
           /\ \A i \in 1..Len(indexed_tools) :
                 \E j \in 1..Len(ordered) : ordered[j] = indexed_tools[i]
           /\ \A i, j \in 1..Len(ordered) :
                 i < j =>
                    \/ Score(ordered[i].tool) > Score(ordered[j].tool)
                    \/ /\ Score(ordered[i].tool) = Score(ordered[j].tool)
                       /\ ordered[i].order < ordered[j].order
           /\ \A i \in 1..Len(outcome.value) : outcome.value[i] = ordered[i].tool

\* C2 witness: two listings were accepted, one with no score and one with
\* score 0, and limit 1 cut the ranked list.
C2_Witness ==
    /\ outcome.kind = "return"
    /\ limit = 1
    /\ Len(ordered) = 2
    /\ Len(outcome.value) = 1
    /\ {ordered[1].tool.votes_count, ordered[2].tool.votes_count} = {JNull, JInt(0)}

\* C3: in every returned list no two records come from nodes with the same
\* slug; of the accepted nodes sharing a slug exactly one record is kept, and
\* it is built from the first of them the traversal meets.
C3_OneRecordPerSlug ==
    (outcome.kind = "return" /\ limit > 0)
        => LET nodes == IterNodes(payload)
           IN  /\ \A i, j \in 1..Len(ordered) :
                     i # j => ~PyEq(ordered[i].slug, ordered[j].slug)
               /\ \A i \in 1..Len(ordered) :
                     LET e == ordered[i]
                         node == nodes[e.src]
                     IN  /\ Candidate(node)
                         /\ Get(node, "slug") = e.slug
                         /\ e.tool.name = JStr(Strip(PyStr(PyOr(Get(node, "name"),
                                                                 Get(node, "title")))))
                         /\ \A k \in 1..(e.src - 1) :
                               Candidate(nodes[k]) => ~PyEq(Get(nodes[k], "slug"), e.slug)
               /\ \A k \in 1..Len(nodes) :
                     Candidate(nodes[k]) =>
                        Cardinality({i \in 1..Len(ordered) :
                                        PyEq(ordered[i].slug, Get(nodes[k], "slug"))}) = 1
               /\ \A i \in 1..Len(outcome.value) : outcome.value[i] = ordered[i].tool

\* C3 witness: two accepted nodes share a slug, the one met later by the
\* traversal has the higher vote count, and a single record was returned.
C3_Witness ==
    /\ outcome.kind = "return"
    /\ limit > 0
    /\ Len(outcome.value) = 1
    /\ LET nodes == IterNodes(payload)
       IN  \E k1, k2 \in 1..Len(nodes) :
              /\ k1 < k2
              /\ Candidate(nodes[k1]) /\ Candidate(nodes[k2])
              /\ Get(nodes[k1], "slug") = Get(nodes[k2], "slug")
              /\ Get(nodes[k1], "votesCount") = JInt(0)
              /\ Get(nodes[k2], "votesCount") = JInt(2)
              /\ ordered[1].src = k1

OptionalKeys == {"tagline", "external_url", "votes_count"}
RequiredKeys == {"name", "tagline", "makers", "product_hunt_url"}

\* C4 as stated: to_dict reproduces every present field, and an absent
\* optional field (tagline, external_url, votes_count) never appears as a
\* null or empty placeholder.
C4_Original ==
    serial.done =>
        /\ \A k \in DOMAIN serial.data : serial.data[k] = serial.tool[k]
        /\ \A k \in OptionalKeys :
              k \in DOMAIN serial.data =>
                 (serial.data[k] # JNull /\ serial.data[k] # JStr(<<>>))

\* C4 amended: to_dict gives name, tagline, makers and product_hunt_url
\* always, each with the record's value (the tagline also when it is empty);
\* external_url exactly when it is truthy (neither None nor empty) and
\* votes_count exactly when it is not None (0 included), each with the
\* record's value; and no other key.
C4_ToDictOmitsAbsentUrlAndVotes ==
    serial.done =>
        /\ RequiredKeys \subseteq DOMAIN serial.data
        /\ DOMAIN serial.data \subseteq RequiredKeys \cup {"external_url", "votes_count"}
        /\ \A k \in DOMAIN serial.data : serial.data[k] = serial.tool[k]
        /\ "external_url" \in DOMAIN serial.data <=> Truthy(serial.tool.external_url)
        /\ "votes_count" \in DOMAIN serial.data <=> serial.tool.votes_count # JNull

\* C4 witness: a record with an empty tagline, no external_url and a vote
\* count of 0 was serialised: votes_count is there as 0, external_url is not.
C4_Witness ==
    /\ serial.done
    /\ serial.tool.tagline = JStr(<<>>)
    /\ serial.tool.external_url = JNull
    /\ serial.tool.votes_count = JInt(0)
    /\ "votes_count" \in DOMAIN serial.data
    /\ serial.data["votes_count"] = JInt(0)
    /\ "external_url" \notin DOMAIN serial.data

\* C5: for a markup text without the opening marker and limit > 0 the call
\* raises PayloadNotFound and returns no records, whether or not the text has
\* a closing marker or decodable content.
C5_NoMarkerRaisesPayloadNotFound ==
    (Ended /\ limit > 0 /\ html # JNull /\ Find(html.chunks, "open", 0) = -1)
        => (outcome = PayloadNotFound /\ payload = JNull /\ indexed_tools = <<>>)

\* C5 witness: a text with neither marker was given and PayloadNotFound raised.
C5_Witness ==
    /\ Ended /\ limit > 0 /\ html # JNull
    /\ html.chunks # <<>>
    /\ Find(html.chunks, "open", 0) = -1
    /\ Find(html.chunks, "close", 0) = -1
    /\ outcome = PayloadNotFound

\* The text between the opening marker and the first closing marker after it
Enclosed(text) ==
    Slice(text, Find(text, "open", 0) + 1,
          Find(text, "close", Find(text, "open", 0) + 1))

HasOpen(text) == Find(text, "open", 0) # -1
HasCloseAfterOpen(text) ==
    HasOpen(text) /\ Find(text, "close", Find(text, "open", 0) + 1) # -1

\* C6: for a markup text with the opening marker and a closing marker after
\* it whose enclosed text, un-escaped, is not valid JSON, the call with
\* limit > 0 raises PayloadDecodeError and no other exception.
C6_UndecodableRaisesPayloadDecodeError ==
    (Ended /\ limit > 0 /\ html # JNull /\ HasCloseAfterOpen(html.chunks)
     /\ JsonLoads(Unescape(Enclosed(html.chunks))).kind = "raise")
        => outcome = PayloadDecodeError

\* C7: for a markup text with the opening marker and no closing marker after
\* it, the call with limit > 0 fails with MalformedPayload; a closing marker
\* before the opening marker does not count.
C7_NoCloseAfterOpenRaisesMalformed ==
    (Ended /\ limit > 0 /\ html # JNull /\ HasOpen(html.chunks)
     /\ ~HasCloseAfterOpen(html.chunks))
        => outcome = MalformedPayload

\* C7 witness: the only closing marker stands before the opening marker.
C7_Witness ==
    /\ Ended /\ limit > 0 /\ html # JNull
    /\ HasOpen(html.chunks)
    /\ Find(html.chunks, "close", 0) # -1
    /\ Find(html.chunks, "close", 0) < Find(html.chunks, "open", 0)
    /\ outcome = MalformedPayload

\* The payload was decoded and handed to _extract_tools.
Decoded == \E i \in 1..Len(calls) : calls[i] = "_extract_tools"

\* C8: for limit > 0 and a payload that decoded, the call raises
\* NoListingsFound if and only if no node of the payload passed the
\* acceptance criteria, and it never returns an empty list.
C8_NoListingsIffNoneAccepted ==
    (Ended /\ limit > 0 /\ Decoded)
        => LET nodes == IterNodes(payload)
           IN  /\ outcome = NoListingsFound
                     <=> \A k \in 1..Len(nodes) : ~Candidate(nodes[k])
               /\ outcome # Return(<<>>)

\* C8 witness: the payload held mappings, none of them a listing, and
\* NoListingsFound was raised.
C8_Witness ==
    /\ Ended /\ limit > 0 /\ Decoded
    /\ Len(IterNodes(payload)) > 2
    /\ outcome = NoListingsFound

\* C9: every failure of the call is a ProductHuntScrapeError, whatever the
\* decoded payload holds, so main catches it and exits with status 1 and a
\* diagnostic.  Stated for the calls whose payload decoded; the failures of
\* decoding are the subject of C6.
C9_EveryFailureIsScrapeError ==
    Decoded =>
        /\ outcome.kind = "raise" => outcome.exc = "ProductHuntScrapeError"
        /\ cli.status # "uncaught"

-----------------------------------------------------------------------------
(* Properties of load_tabular_file *)

\* C10: for a .csv upload read_csv is called with the option sets of
\* attempts in their order, the file rewound before each call; the loop stops
\* at the first call that succeeds and returns that call's frame; the
\* warnings are none after the first attempt, one flexible-mode warning after
\* the second and one rows-excluded warning after the third.
C10_CsvAttemptsInOrder ==
    EndsWith(ld.filename, ".csv") =>
        /\ Len(ld.log) <= 3
        /\ \A k \in 1..Len(ld.log) :
              /\ ld.log[k].pos = 0
              /\ ld.log[k].kwargs =
                    (CASE k = 1 -> {}
                       [] k = 2 -> {<<"engine", "python">>}
                       [] k = 3 -> {<<"engine", "python">>, <<"on_bad_lines", "skip">>})
        /\ ld.pc = "csv" => (ld.warnings = <<>> /\ Len(ld.log) = ld.i - 1)
        /\ ld.pc = "returned" =>
              /\ Len(ld.log) = ld.i
              /\ ld.outcome.kind = "return"
              /\ ld.outcome.value[1].kwargs = ld.log[Len(ld.log)].kwargs
              /\ ld.outcome.value[2] =
                    (CASE Len(ld.log) = 1 -> <<>>
                       [] Len(ld.log) = 2 -> <<FlexibleModeWarning>>
                       [] Len(ld.log) = 3 -> <<RowsExcludedWarning>>)

\* C10 witness: the file was not at its start, the first two reads failed
\* and the third returned a frame.
C10_Witness ==
    /\ EndsWith(ld.filename, ".csv")
    /\ ld.pc = "returned"
    /\ Len(ld.log) = 3
    /\ ld.outcome.value[2] = <<RowsExcludedWarning>>

\* C11: for a .csv upload on which all three reads fail, the call raises the
\* exception of the third read, returns no frame and no warnings, and has
\* made exactly three read_csv calls; the ValueError of line 82 is never
\* what a .csv upload ends with.
C11_AllAttemptsFailRaisesLast ==
    (ld.pandas /\ EndsWith(ld.filename, ".csv"))
        => /\ ld.outcome # Raise("ValueError", "CSV")
           /\ ld.pc = "raised" =>
                 /\ Len(ld.log) = 3
                 /\ \A k \in 1..3 : ld.log[k].result # "frame"
                 /\ ld.outcome.kind = "raise"
                 /\ ld.outcome.exc = ld.log[3].result
                 /\ ld.outcome.msg = 3
                 /\ ld.warnings = <<>>
           /\ (Len(ld.log) = 3 /\ ld.log[3].result # "frame" /\ ld.pc # "csv")
                 => ld.pc = "raised"

\* C11 witness: three reads failed, the first and the third with different
\* exceptions, and the third one's was raised.
C11_Witness ==
    /\ ld.pandas /\ EndsWith(ld.filename, ".csv")
    /\ ld.pc = "raised"
    /\ Len(ld.log) = 3
    /\ ld.log[1].result # ld.log[3].result
    /\ ld.outcome.exc = ld.log[3].result

-----------------------------------------------------------------------------
(* Properties of compute_related_cases *)

\* C12: the frame compute_related_cases returns holds only rows of df whose
\* ward is the selected ward and, when a crime column and a selected crime
\* are given, whose crime is the selected crime; it holds no row whose
\* summary is the selected summary and at most top_n rows; it is empty when
\* the summary column is missing (not given, or not a column of df) or no
\* selected summary is given.
C12_RelatedRowsFiltered ==
    rc.pc = "returned" =>
        LET rows == rc.result.value.rows
        IN  /\ \A k \in 1..Len(rows) :
                  /\ \E d \in 1..Len(rc.df) : rc.df[d] = rows[k]
                  /\ rows[k].ward = rc.selected_ward
                  /\ (Truthy(rc.crime_col) /\ Truthy(rc.selected_crime))
                        => rows[k].crime = rc.selected_crime
                  /\ rows[k].summary # rc.selected_summary
            /\ Len(rows) <= rc.top_n
            /\ (\/ ~Truthy(rc.summary_col)
                \/ ~InColumns(rc.summary_col)
                \/ ~Truthy(rc.selected_summary)) => rows = <<>>

\* C12 witness: a search by ward and crime over a frame holding a row with
\* the selected summary and more close rows than top_n returns top_n rows.
C12_Witness ==
    /\ rc.pc = "returned"
    /\ Truthy(rc.crime_col) /\ Truthy(rc.selected_crime)
    /\ \E d \in 1..Len(rc.df) :
          /\ rc.df[d].summary = rc.selected_summary
          /\ rc.df[d].ward = rc.selected_ward
          /\ rc.df[d].crime = rc.selected_crime
    /\ Len(rc.scored) > rc.top_n
    /\ rc.top_n > 0
    /\ Len(rc.result.value.rows) = rc.top_n

-----------------------------------------------------------------------------
(* Properties of the records built from a node *)

\* The votes-like field of a node as the documentation reads it: votesCount
\* when the node has one, else votes; the nested count when that is a mapping.
VotesField(node) ==
    LET field == IF Get(node, "votesCount") # JNull
                 THEN Get(node, "votesCount") ELSE Get(node, "votes")
    IN  IF field.t = "dict" THEN Get(field, "count") ELSE field

\* C13: the votes_count of every record is the integer its node's votes-like
\* field coerces to, 0 included, and is absent only when the node has no
\* such field or its value does not coerce.
C13_VotesCountIsCoercedField ==
    LET nodes == IterNodes(payload)
    IN  \A i \in 1..Len(indexed_tools) :
           LET e == indexed_tools[i]
               field == VotesField(nodes[e.src])
           IN  IF field = JNull \/ PyInt(field).kind = "raise"
               THEN e.tool.votes_count = JNull
               ELSE e.tool.votes_count = JInt(PyInt(field).value)

\* C14: every record of a returned list has a non-empty name; a node whose
\* name or title is empty, or empty once the surrounding whitespace is
\* removed, gives no record.
C14_ReturnedNamesNonEmpty ==
    outcome.kind = "return"
        => \A i \in 1..Len(outcome.value) :
              /\ outcome.value[i].name.t = "str"
              /\ outcome.value[i].name.s # <<>>

\* A field that is not there or is the empty string
Lacking(v) == v = JNull \/ v = JStr(<<>>)

\* The type tag is a string containing 'Post' or 'Product'
TaggedListing(node) ==
    LET typename == Get(node, "__typename")
    IN  typename.t = "str"
        /\ \E k \in 1..Len(typename.s) : typename.s[k] \in {"Post", "Product"}

\* A node the filter must skip: no or an unrecognised type tag, no slug, or
\* neither name nor title
MustSkip(node) ==
    \/ ~TaggedListing(node)
    \/ Lacking(Get(node, "slug"))
    \/ Lacking(Get(node, "name")) /\ Lacking(Get(node, "title"))

\* C15: every record comes from a mapping with a recognised type tag, a
\* non-empty slug and a non-empty name or title; a mapping without one of
\* these gives no record and causes no error, and takes no discovery index:
\* the k-th record collected has index k - 1.
C15_OnlyAcceptedNodesGiveRecords ==
    LET nodes == IterNodes(payload)
    IN  /\ \A i \in 1..Len(indexed_tools) :
              /\ ~MustSkip(nodes[indexed_tools[i].src])
              /\ indexed_tools[i].order = i - 1
              /\ i > 1 => indexed_tools[i - 1].src < indexed_tools[i].src
        /\ (pc = "raised" /\ Decoded /\ limit > 0)
              => \/ outcome = NoListingsFound
                 \/ \E k \in 1..Len(nodes) : ~MustSkip(nodes[k])

\* C15 witness: the walk met a tagged node it had to skip before the node
\* of the first record, which got index 0.
C15_Witness ==
    /\ Len(indexed_tools) >= 1
    /\ indexed_tools[1].order = 0
    /\ \E k \in 1..(indexed_tools[1].src - 1) :
          /\ Get(IterNodes(payload)[k], "__typename") # JNull
          /\ MustSkip(IterNodes(payload)[k])

\* The text of a field with the surrounding whitespace removed; nothing
\* for a field that is not there
Trimmed(v) == IF v.t = "str" THEN Strip(v.s) ELSE <<>>

\* C16: the tagline of every record is the node's tagline trimmed when that
\* is non-empty, else the node's description trimmed, and is empty only when
\* both are; a tagline of whitespace alone leaves a non-empty description
\* to be used.
C16_SummaryIsFirstNonEmpty ==
    LET nodes == IterNodes(payload)
    IN  \A i \in 1..Len(indexed_tools) :
           LET node == nodes[indexed_tools[i].src]
               tagline == Trimmed(Get(node, "tagline"))
               description == Trimmed(Get(node, "description"))
           IN  indexed_tools[i].tool.tagline
                  = JStr(IF tagline # <<>> THEN tagline ELSE description)

\* The keys of person objects and of connection wrappers
person_keys == {"displayName", "name"}
wrapper_keys == {"nodes", "edges", "node", "profiles", "items", "collection",
                 "members", "user", "users"}

\* The mappings nested anywhere in the candidate maker fields of a node
MakerMappings(node) ==
    UNION {{IterNodes(Get(node, candidate_keys[k]))[j] :
               j \in 1..Len(IterNodes(Get(node, candidate_keys[k])))} :
           k \in 1..Len(candidate_keys)}

\* The maker fields nest nothing but person objects and connection wrappers
PlainNesting(node) ==
    \A d \in MakerMappings(node) :
       \A k \in 1..Len(d.items) :
          /\ d.items[k][1] \in person_keys \cup wrapper_keys
          /\ d.items[k][1] = "node" => Len(d.items) = 1

\* The name a person object goes by: displayName before name
PreferredName(d) ==
    IF Get(d, "displayName") \notin {JNull, JStr(<<>>)}
    THEN Get(d, "displayName") ELSE Get(d, "name")

\* Position of the first occurrence of x in s
FirstAt(s, x) == CHOOSE k \in 1..Len(s) : s[k] = x /\ \A j \in 1..(k - 1) : s[j] # x

\* C17: the makers of every record hold no empty string and no duplicate,
\* in the order in which the names are first met going through the
\* candidate maker fields in their fixed order; with nothing but person
\* objects, lists and connection wrappers nested in those fields, the makers
\* are exactly the non-empty names the person objects go by, displayName
\* before name.
C17_MakersDistinctInFirstSeenOrder ==
    LET nodes == IterNodes(payload)
    IN  \A i \in 1..Len(indexed_tools) :
           LET node == nodes[indexed_tools[i].src]
               makers == indexed_tools[i].tool.makers.items
               met == MakerNamesOf(node, candidate_keys)
           IN  /\ \A k \in 1..Len(makers) : makers[k].t = "str" /\ makers[k].s # <<>>
               /\ \A j, k \in 1..Len(makers) : j # k => makers[j] # makers[k]
               /\ \A k \in 1..Len(makers) : \E j \in 1..Len(met) : met[j] = makers[k].s
               /\ \A j \in 1..Len(met) :
                     met[j] # <<>> => \E k \in 1..Len(makers) : makers[k].s = met[j]
               /\ \A j, k \in 1..Len(makers) :
                     j < k => FirstAt(met, makers[j].s) < FirstAt(met, makers[k].s)
               /\ PlainNesting(node) =>
                     {makers[k] : k \in 1..Len(makers)}
                        = {PreferredName(d) : d \in MakerMappings(node)}
                             \ {JNull, JStr(<<>>)}

\* C17 witness: a record with two makers from a node that names one of them
\* twice, once by a displayName that differs from the name, through
\* connection wrappers, and that holds a person with an empty name.
C17_Witness ==
    \E i \in 1..Len(indexed_tools) :
       LET node == IterNodes(payload)[indexed_tools[i].src]
           makers == indexed_tools[i].tool.makers.items
           met == MakerNamesOf(node, candidate_keys)
       IN  /\ Len(makers) = 2
           /\ Len(met) > 2
           /\ PlainNesting(node)
           /\ \E d \in MakerMappings(node) :
                 /\ Get(d, "displayName") = makers[1]
                 /\ Get(d, "name") \notin {JNull, makers[1]}
           /\ \E d \in MakerMappings(node) : Get(d, "name") = JStr(<<>>)

-----------------------------------------------------------------------------
(* Properties of the node walker *)

\* The number of structural positions of v (v itself, the values of its
\* mappings and the elements of its sequences, at any depth) that hold a
\* mapping equal to d
RECURSIVE Positions(_, _)
RECURSIVE PositionsIn(_, _)
Positions(v, d) ==
    (IF v = d THEN 1 ELSE 0)
    + (IF v.t = "dict" THEN PositionsIn(Values(v), d)
       ELSE IF v.t = "list" THEN PositionsIn(v.items, d)
       ELSE 0)
PositionsIn(vs, d) ==
    IF vs = <<>> THEN 0 ELSE Positions(Head(vs), d) + PositionsIn(Tail(vs), d)

\* The number of structural positions of v that hold a mapping
RECURSIVE Mappings(_)
RECURSIVE MappingsIn(_)
Mappings(v) ==
    IF v.t = "dict" THEN 1 + MappingsIn(Values(v))
    ELSE IF v.t = "list" THEN MappingsIn(v.items)
    ELSE 0
MappingsIn(vs) ==
    IF vs = <<>> THEN 0 ELSE Mappings(Head(vs)) + MappingsIn(Tail(vs))

\* C18: over a decoded payload _iter_nodes ends and yields mappings only,
\* one for every structural position that holds a mapping, the root
\* included: a mapping is yielded as many times as there are positions
\* holding it, so equal mappings at two positions are yielded twice.
C18_WalkYieldsEveryMappingOnce ==
    Decoded =>
        LET yielded == IterNodes(payload)
        IN  /\ \A k \in 1..Len(yielded) :
                  /\ yielded[k].t = "dict"
                  /\ Cardinality({j \in 1..Len(yielded) : yielded[j] = yielded[k]})
                        = Positions(payload, yielded[k])
            /\ Len(yielded) = Mappings(payload)
            /\ payload.t = "dict" => Len(yielded) >= 1 /\ yielded[1] = payload

\* C18 witness: the payload held the same mapping at two positions of a
\* sequence and the walk yielded it twice.
C18_Witness ==
    /\ Decoded
    /\ \E j, k \in 1..Len(IterNodes(payload)) :
          /\ j # k
          /\ IterNodes(payload)[j] = IterNodes(payload)[k]
          /\ Positions(payload, IterNodes(payload)[j]) = 2

\* The sequences nested anywhere in v, each as the sequence of its elements
RECURSIVE Arrays(_)
RECURSIVE ArraysIn(_)
Arrays(v) ==
    IF v.t = "list" THEN {v.items} \cup ArraysIn(v.items)
    ELSE IF v.t = "dict" THEN ArraysIn(Values(v))
    ELSE {}
ArraysIn(vs) ==
    IF vs = <<>> THEN {} ELSE Arrays(Head(vs)) \cup ArraysIn(Tail(vs))

\* The node is a listing and the only listing of the payload with its slug
SoleListing(node) ==
    /\ node.t = "dict"
    /\ Candidate(node)
    /\ Hashable(Get(node, "slug"))
    /\ LET nodes == IterNodes(payload)
       IN  Cardinality({k \in 1..Len(nodes) :
                           /\ Candidate(nodes[k])
                           /\ PyEq(Get(nodes[k], "slug"), Get(node, "slug"))}) = 1

\* The place of the record of a sole listing in a list of entries
PlaceOf(entries, node) ==
    CHOOSE i \in 1..Len(entries) : entries[i].slug = Get(node, "slug")

\* C19: the discovery indices of the records collected are 0, 1, 2, ... in
\* the order of the walk; of two listings with distinct slugs that are
\* elements of one array and whose records have equal scores (absent
\* counted as 0), the later element has the smaller discovery index and
\* comes first in the ranked list, so it is returned whenever the earlier
\* one is, and before it.
C19_LaterArrayElementFirst ==
    (outcome.kind = "return" /\ limit > 0)
        => /\ \A i \in 1..Len(indexed_tools) : indexed_tools[i].order = i - 1
           /\ \A array \in Arrays(payload) :
                 \A p, q \in 1..Len(array) :
                    (/\ p < q
                     /\ SoleListing(array[p])
                     /\ SoleListing(array[q])
                     /\ ~PyEq(Get(array[p], "slug"), Get(array[q], "slug")))
                    => LET earlier == PlaceOf(ordered, array[p])
                           later == PlaceOf(ordered, array[q])
                       IN  Score(ordered[earlier].tool) = Score(ordered[later].tool)
                             => /\ ordered[later].order < ordered[earlier].order
                                /\ later < earlier
                                /\ earlier <= Len(outcome.value)
                                      => /\ outcome.value[later] = ordered[later].tool
                                         /\ outcome.value[earlier] = ordered[earlier].tool

\* C19 witness: both of two listings of one array, with equal scores, were
\* returned, the second element of the array first.
C19_Witness ==
    /\ outcome.kind = "return"
    /\ Len(outcome.value) = 2
    /\ \E array \in Arrays(payload) :
          /\ Len(array) = 2
          /\ SoleListing(array[1])
          /\ SoleListing(array[2])
          /\ Get(array[1], "slug") # Get(array[2], "slug")
          /\ Score(outcome.value[1]) = Score(outcome.value[2])
          /\ ordered[1].slug = Get(array[2], "slug")
          /\ ordered[2].slug = Get(array[1], "slug")
          /\ ordered[1].order = 0 /\ ordered[2].order = 1

====
